---- MODULE Spec2Model ----
(***************************************************************************)
(* A model of math-jit (src/src/lib.rs): ExecutableMemory, a byte buffer   *)
(* that is copied into an anonymous memory map and called as a function,   *)
(* and JITCalculator, which emits an "add" routine into such a buffer once *)
(* and patches its two address operands on later calls.                    *)
(*                                                                         *)
(* A u64 is kept as four 16-bit limbs, least significant first, so that    *)
(* every value of the full 64-bit range is representable and the byte      *)
(* extraction of write_u64 / write_u64_at is real arithmetic (% and \div). *)
(***************************************************************************)
EXTENDS Integers, Sequences, FiniteSets, TLC

VARIABLES
    code,        \* ExecutableMemory.code: Vec<u8>
    memory_map,  \* ExecutableMemory.memory_map: Option<Mmap> (the field)
    region,      \* the local `memory_map` of execute: the mapped region
    pc,          \* position inside execute ("idle" when no call is running)
    retType,     \* the T of the running execute::<T>
    result,      \* what the last finished operation gave its caller
    storage,     \* caller-owned u64 cells, by address
    left_addr,   \* add: left as *const T as usize
    right_addr,  \* add: right as *const T as usize
    path,        \* add: which branch of `if self.add_code.is_empty()` ran
    op,          \* the operation last started, with its arguments
    prot_result, \* the Result of set_protection (which execute discards)
    calls,       \* number of add calls started
    emits,       \* number of times add emitted the template
    allocs,      \* number of regions Mmap::anonymous has handed out
    execs,       \* number of execute calls started
    writes       \* number of write_code / write_u64 / write_u64_at calls

vars == <<code, memory_map, region, pc, retType, result, storage, left_addr,
          right_addr, path, op, prot_result, calls, emits, allocs, execs,
          writes>>

----------------------------------------------------------------------------
(* Bounds of the model. *)

MaxCalls == 3
MaxLen == 14
MaxOps == 3
MaxExecs == 2

----------------------------------------------------------------------------
(* 64-bit words as four 16-bit limbs. *)

Limb == 256 * 256

U64(l0, l1, l2, l3) == <<l0, l1, l2, l3>>

Small(n) == <<n, 0, 0, 0>>

Max64 == <<Limb - 1, Limb - 1, Limb - 1, Limb - 1>>

\* byte m (0 = least significant) of a word
ByteOf(num, m) ==
    IF m % 2 = 0 THEN num[(m \div 2) + 1] % 256
                 ELSE num[(m \div 2) + 1] \div 256

\* ((num & (0xFF << 8*maskByte)) >> shift) as u8, for shifts that are
\* multiples of 8: the selected byte lands in the low byte only when
\* shift = 8 * maskByte; otherwise the low byte of the result is 0.
MaskShr(num, maskByte, shift) ==
    IF shift = 8 * maskByte THEN ByteOf(num, maskByte) ELSE 0

\* wrapping add (add rcx,rdx): the carry out of the top limb is dropped
Add64(x, y) ==
    LET s1 == x[1] + y[1]
        s2 == x[2] + y[2] + (s1 \div Limb)
        s3 == x[3] + y[3] + (s2 \div Limb)
        s4 == x[4] + y[4] + (s3 \div Limb)
    IN  <<s1 % Limb, s2 % Limb, s3 % Limb, s4 % Limb>>

\* 32-bit add (add eax,edx): the result is zero-extended into the register
Add32(x, y) ==
    LET s1 == x[1] + y[1]
        s2 == x[2] + y[2] + (s1 \div Limb)
    IN  <<s1 % Limb, s2 % Limb, 0, 0>>

\* little-endian decoding of the n bytes of mem that start at index i
\* (0-based), n = 4 or 8, as the CPU reads an immediate
Imm(mem, i, n) ==
    LET limb(j) == IF 2 * j + 2 <= n
                   THEN mem[i + 2 * j + 1] + 256 * mem[i + 2 * j + 2]
                   ELSE 0
    IN  <<limb(0), limb(1), limb(2), limb(3)>>

----------------------------------------------------------------------------
(* ExecutableMemory: the pure part of each method. *)

\* write_code: push every byte
write_code(c, bytes) == c \o bytes

\* write_code_at: code.iter().zip(self.code[position..].iter_mut());
\* slicing panics when position > len, zip stops at the shorter side
write_code_at_panics(c, position) == position > Len(c)

write_code_at(c, bytes, position) ==
    [i \in 1..Len(c) |->
        IF i > position /\ i - position <= Len(bytes)
        THEN bytes[i - position]
        ELSE c[i]]

\* write_u64 with b2 left unshifted (0xFF00 masked, then cut to u8)
u64_bytes_unshifted(num) ==
    << MaskShr(num, 0, 0),  MaskShr(num, 1, 0),
       MaskShr(num, 2, 16), MaskShr(num, 3, 24),
       MaskShr(num, 4, 32), MaskShr(num, 5, 40),
       MaskShr(num, 6, 48), MaskShr(num, 7, 56) >>

\* the b1..b8 of write_u64
u64_bytes(num) ==
    << MaskShr(num, 0, 0),  MaskShr(num, 1, 8),
       MaskShr(num, 2, 16), MaskShr(num, 3, 24),
       MaskShr(num, 4, 32), MaskShr(num, 5, 40),
       MaskShr(num, 6, 48), MaskShr(num, 7, 56) >>

write_u64(c, num) == write_code(c, u64_bytes(num))

\* write_u64_at with b5 shifted by 0x18 instead of 0x20
u64_bytes_at_badshift(num) ==
    << MaskShr(num, 0, 0),  MaskShr(num, 1, 8),
       MaskShr(num, 2, 16), MaskShr(num, 3, 24),
       MaskShr(num, 4, 24), MaskShr(num, 5, 40),
       MaskShr(num, 6, 48), MaskShr(num, 7, 56) >>

\* the b1..b8 of write_u64_at
u64_bytes_at(num) ==
    << MaskShr(num, 0, 0),  MaskShr(num, 1, 8),
       MaskShr(num, 2, 16), MaskShr(num, 3, 24),
       MaskShr(num, 4, 32), MaskShr(num, 5, 40),
       MaskShr(num, 6, 48), MaskShr(num, 7, 56) >>

write_u64_at(c, num, position) == write_code_at(c, u64_bytes_at(num), position)

\* a copy that stops one byte short
copy_into_short(dst, src, len) ==
    [i \in 1..Len(dst) |-> IF i < len THEN src[i] ELSE dst[i]]

\* execute, line 67: ptr::copy(self.code.as_ptr(), memory_map.mut_ptr(), len)
copy_into(dst, src, len) ==
    [i \in 1..Len(dst) |-> IF i <= len THEN src[i] ELSE dst[i]]

\* a fresh anonymous mapping is zero-filled
zeroed(len) == [i \in 1..len |-> 0]

----------------------------------------------------------------------------
(* The CPU, for the instructions this repository emits (the encodings and  *)
(* their meaning are the ones the source gives beside each byte string).   *)
(* Only the returned register is observed; what the routine leaves in the  *)
(* other registers is not part of the model.                               *)

Garbage == <<>>     \* a register nobody has written

IsDef(x) == Len(x) = 4

EntryRegs == [rax |-> Garbage, rbx |-> Garbage, rcx |-> Garbage, rdx |-> Garbage]

Undefined == [ok |-> FALSE, rax |-> Garbage]

Has(mem, ip, n) == ip + n <= Len(mem)

Is2(mem, ip, a, b) == Has(mem, ip, 2) /\ mem[ip + 1] = a /\ mem[ip + 2] = b

Is3(mem, ip, a, b, c) == Has(mem, ip, 3) /\ Is2(mem, ip, a, b) /\ mem[ip + 3] = c

RECURSIVE Run(_, _, _, _)
Run(mem, ip, regs, store) ==
    IF ~Has(mem, ip, 1) THEN Undefined          \* ran off the copied code
    ELSE IF mem[ip + 1] = 195                     \* c3: ret
    THEN [ok |-> IsDef(regs.rax), rax |-> regs.rax]
    ELSE IF mem[ip + 1] = 184 /\ Has(mem, ip, 5)  \* b8 imm32: mov eax,imm32
    THEN Run(mem, ip + 5, [regs EXCEPT !.rax = Imm(mem, ip + 1, 4)], store)
    ELSE IF mem[ip + 1] = 186 /\ Has(mem, ip, 5)  \* ba imm32: mov edx,imm32
    THEN Run(mem, ip + 5, [regs EXCEPT !.rdx = Imm(mem, ip + 1, 4)], store)
    ELSE IF Is2(mem, ip, 1, 208)                  \* 01 d0: add eax,edx
    THEN IF IsDef(regs.rax) /\ IsDef(regs.rdx)
         THEN Run(mem, ip + 2,
                  [regs EXCEPT !.rax = Add32(regs.rax, regs.rdx)], store)
         ELSE Undefined
    ELSE IF Is2(mem, ip, 72, 184) /\ Has(mem, ip, 10)  \* 48 b8 imm64: mov rax,imm64
    THEN Run(mem, ip + 10, [regs EXCEPT !.rax = Imm(mem, ip + 2, 8)], store)
    ELSE IF Is2(mem, ip, 72, 187) /\ Has(mem, ip, 10)  \* 48 bb imm64: mov rbx,imm64
    THEN Run(mem, ip + 10, [regs EXCEPT !.rbx = Imm(mem, ip + 2, 8)], store)
    ELSE IF Is3(mem, ip, 72, 139, 8)              \* 48 8b 08: mov rcx,[rax]
    THEN IF regs.rax \in DOMAIN store
         THEN Run(mem, ip + 3, [regs EXCEPT !.rcx = store[regs.rax]], store)
         ELSE Undefined
    ELSE IF Is3(mem, ip, 72, 139, 19)             \* 48 8b 13: mov rdx,[rbx]
    THEN IF regs.rbx \in DOMAIN store
         THEN Run(mem, ip + 3, [regs EXCEPT !.rdx = store[regs.rbx]], store)
         ELSE Undefined
    ELSE IF Is3(mem, ip, 72, 1, 209)              \* 48 01 d1: add rcx,rdx
    THEN IF IsDef(regs.rcx) /\ IsDef(regs.rdx)
         THEN Run(mem, ip + 3,
                  [regs EXCEPT !.rcx = Add64(regs.rcx, regs.rdx)], store)
         ELSE Undefined
    ELSE IF Is3(mem, ip, 72, 137, 200)            \* 48 89 c8: mov rax,rcx
    THEN Run(mem, ip + 3, [regs EXCEPT !.rax = regs.rcx], store)
    ELSE Undefined

\* transmute::<_, fn() -> T>(ptr)(): the call enters the region at its first
\* byte; a u32 result is eax, a u64 result is rax
Call(mem, store) == Run(mem, 0, EntryRegs, store)

AsT(T, rax) == IF T = "u32" THEN <<rax[1], rax[2], 0, 0>> ELSE rax

----------------------------------------------------------------------------
(* Inputs. *)

\* the 13 bytes of tests::it_works: mov eax,5; mov edx,11; add eax,edx; ret
Golden == <<184, 5, 0, 0, 0,  186, 11, 0, 0, 0,  1, 208,  195>>

Chunks == { Golden, <<184, 5, 0, 0, 0>>, <<195>> }

\* 0x0807060504030201 has eight different bytes
Pattern == U64(513, 1027, 1541, 2055)

Nums == { Pattern, Max64 }

\* positions tried by write_u64_at on a buffer of length n: the operand
\* offsets of add, the last position where 8 bytes fit, the first where they
\* do not, the end of the buffer, and one past it
Positions(n) == { k \in {0, 2, 12, n - 8, n - 7, n - 1, n, n + 1} : k >= 0 }

\* two stack cells of the caller, 0x00007ffc2a1be5f8 and 0x00007ffc2a1be600
AddrA == U64(58872, 10779, 32764, 0)

AddrB == U64(58880, 10779, 32764, 0)

Addrs == { AddrA, AddrB }

Values == { Small(10), Small(22), Small(40), Small(33), Max64,
            U64(52719, 35243, 17767, 291) }

Types == { "u32", "u64" }

\* what a call of undefined code may hand back, when it returns at all
Arbitrary == { Small(0), Max64 }

NoRegion == [mapped |-> FALSE, bytes |-> <<>>, prot |-> "None"]

NoResult == [kind |-> "none", value |-> Garbage]

Unit == [kind |-> "unit", value |-> Garbage]

Panic == [kind |-> "panic", value |-> Garbage]

Crash == [kind |-> "crash", value |-> Garbage]

Value(v) == [kind |-> "value", value |-> v]

----------------------------------------------------------------------------
(* State after construction: ExecutableMemory::new / JITCalculator::new,   *)
(* and the caller's two cells as tests::jit_calculator sets them.          *)

Init ==
    /\ code = <<>>
    /\ memory_map = "None"
    /\ region = NoRegion
    /\ pc = "idle"
    /\ retType = "u64"
    /\ result = NoResult
    /\ storage = [a \in Addrs |-> IF a = AddrA THEN Small(10) ELSE Small(22)]
    /\ left_addr = AddrA
    /\ right_addr = AddrB
    /\ path = "none"
    /\ op = [name |-> "new", num |-> Garbage, position |-> 0]
    /\ prot_result = "none"
    /\ calls = 0
    /\ emits = 0
    /\ allocs = 0
    /\ execs = 0
    /\ writes = 0

Op(name) == [name |-> name, num |-> Garbage, position |-> 0]

callVars == <<left_addr, right_addr, path, calls, emits, storage>>

execVars == <<region, retType, prot_result, allocs, execs>>

----------------------------------------------------------------------------
(* ExecutableMemory's public methods, called directly (as tests::it_works). *)

WriteCode(bytes) ==
    /\ pc = "idle"
    /\ writes < MaxOps
    /\ Len(code) + Len(bytes) <= MaxLen
    /\ code' = write_code(code, bytes)
    /\ result' = Unit
    /\ op' = Op("write_code")
    /\ writes' = writes + 1
    /\ UNCHANGED <<memory_map, pc, callVars, execVars>>

WriteU64(num) ==
    /\ pc = "idle"
    /\ writes < MaxOps
    /\ Len(code) + 8 <= MaxLen
    /\ code' = write_u64(code, num)
    /\ result' = Unit
    /\ op' = [name |-> "write_u64", num |-> num, position |-> Len(code)]
    /\ writes' = writes + 1
    /\ UNCHANGED <<memory_map, pc, callVars, execVars>>

WriteU64At(num, position) ==
    /\ pc = "idle"
    /\ writes < MaxOps
    /\ IF write_code_at_panics(code, position)
       THEN code' = code /\ result' = Panic
       ELSE code' = write_u64_at(code, num, position) /\ result' = Unit
    /\ op' = [name |-> "write_u64_at", num |-> num, position |-> position]
    /\ writes' = writes + 1
    /\ UNCHANGED <<memory_map, pc, callVars, execVars>>

\* execute::<T>() is entered; its body runs in the steps below
Execute(T) ==
    /\ pc = "idle"
    /\ execs < MaxExecs
    /\ pc' = "alloc"
    /\ retType' = T
    /\ execs' = execs + 1
    /\ prot_result' = "none"
    /\ op' = Op("execute")
    /\ result' = NoResult
    /\ UNCHANGED <<code, memory_map, region, callVars, allocs, writes>>

----------------------------------------------------------------------------
(* The body of execute, statement by statement.  The platform (mmap,       *)
(* mprotect) may refuse; a mapping of length 0 is always refused.          *)

stepVars == <<code, memory_map, retType, callVars, op, execs, writes>>

\* line 64: Mmap::anonymous(len, ReadWrite) gave Ok
ExecAllocOk ==
    /\ pc = "alloc"
    /\ Len(code) > 0
    /\ region' = [mapped |-> TRUE, bytes |-> zeroed(Len(code)), prot |-> "ReadWrite"]
    /\ allocs' = allocs + 1
    /\ pc' = "copy"
    /\ UNCHANGED <<stepVars, result, prot_result>>

\* line 64: Mmap::anonymous gave Err and .unwrap() panics
ExecAllocErr ==
    /\ pc = "alloc"
    /\ result' = Panic
    /\ pc' = "idle"
    /\ UNCHANGED <<stepVars, region, prot_result, allocs>>

\* line 67: ptr::copy
ExecCopy ==
    /\ pc = "copy"
    /\ region' = [region EXCEPT !.bytes = copy_into(region.bytes, code, Len(code))]
    /\ pc' = "protect"
    /\ UNCHANGED <<stepVars, result, prot_result, allocs>>

\* line 68: set_protection(ReadExecute); its Result is dropped, so the next
\* statement runs whatever the platform answered
set_protection(r, ok) == IF ok THEN [r EXCEPT !.prot = "ReadExecute"] ELSE r

ExecProtect(ok) ==
    /\ pc = "protect"
    /\ region' = set_protection(region, ok)
    /\ prot_result' = IF ok THEN "Ok" ELSE "Err"
    /\ pc' = "invoke"
    /\ UNCHANGED <<stepVars, result, allocs>>

\* line 69: transmute(memory_map.ptr())().  On an executable region the call
\* returns what the copied bytes compute; bytes that are not a function the
\* CPU model knows may return anything or never come back.  On a region the
\* platform refused to make executable the call faults, or, where readable
\* pages may run, behaves as on an executable one.
invoke_outcomes(r, store, T) ==
    LET run == Call(r.bytes, store)
        ran == IF run.ok
               THEN { Value(AsT(T, run.rax)) }
               ELSE { Value(AsT(T, v)) : v \in Arbitrary } \cup { Crash }
    IN  IF r.prot = "ReadExecute" THEN ran ELSE ran \cup { Crash }

ExecInvoke ==
    /\ pc = "invoke"
    /\ \E out \in invoke_outcomes(region, storage, retType) :
          IF out = Crash
          THEN pc' = "crashed" /\ UNCHANGED result
          ELSE pc' = "drop" /\ result' = out
    /\ UNCHANGED <<stepVars, region, prot_result, allocs>>

\* line 71: the local Mmap goes out of scope and is unmapped
ExecDrop ==
    /\ pc = "drop"
    /\ region' = NoRegion
    /\ pc' = "idle"
    /\ UNCHANGED <<stepVars, result, prot_result, allocs>>

ExecStep ==
    \/ ExecAllocOk
    \/ ExecAllocErr
    \/ ExecCopy
    \/ \E ok \in BOOLEAN : ExecProtect(ok)
    \/ ExecInvoke
    \/ ExecDrop

NextMem ==
    \/ \E bytes \in Chunks : WriteCode(bytes)
    \/ \E num \in Nums : WriteU64(num)
    \/ \E num \in Nums : \E position \in Positions(Len(code)) : WriteU64At(num, position)
    \/ \E T \in Types : Execute(T)
    \/ ExecStep

SpecMem == Init /\ [][NextMem]_vars

----------------------------------------------------------------------------
(* JITCalculator. *)

OffLeft == 2

OffRight == 12

\* add, lines 110-121: the template, emitted into the empty buffer
add_emit(c, l, r) ==
    LET c1 == write_code(c, <<72, 184>>)          \* mov rax,imm64
        c2 == write_u64(c1, l)
        c3 == write_code(c2, <<72, 187>>)         \* mov rbx,imm64
        c4 == write_u64(c3, r)
        c5 == write_code(c4, <<72, 139, 8>>)      \* mov rcx,[rax]
        c6 == write_code(c5, <<72, 139, 19>>)     \* mov rdx,[rbx]
        c7 == write_code(c6, <<72, 1, 209>>)      \* add rcx,rdx
        c8 == write_code(c7, <<72, 137, 200>>)    \* mov rax,rcx
    IN  write_code(c8, <<195>>)                   \* ret

\* a patch path that forgets the right operand
add_patch_left_only(c, l, r) == write_u64_at(c, l, OffLeft)

\* add, lines 125-126: the two operand slots are overwritten in place
add_patch(c, l, r) == write_u64_at(write_u64_at(c, l, OffLeft), r, OffRight)

\* an add that emits the template on every call
takes_emit_path_always(c) == TRUE

\* if self.add_code.is_empty()
takes_emit_path(c) == Len(c) = 0

\* add<T>(left, right) up to its call of execute: emit or patch
AddCall(l, r) ==
    /\ pc = "idle"
    /\ calls < MaxCalls
    /\ calls' = calls + 1
    /\ left_addr' = l
    /\ right_addr' = r
    /\ op' = Op("add")
    /\ IF takes_emit_path(code)
       THEN /\ code' = add_emit(code, l, r)
            /\ path' = "emit"
            /\ emits' = emits + 1
            /\ pc' = "alloc"
            /\ result' = NoResult
       ELSE /\ path' = "patch"
            /\ emits' = emits
            /\ IF write_code_at_panics(code, OffLeft)
               THEN code' = code /\ pc' = "idle" /\ result' = Panic
               ELSE IF write_code_at_panics(code, OffRight)
               THEN /\ code' = write_u64_at(code, l, OffLeft)
                    /\ pc' = "idle"
                    /\ result' = Panic
               ELSE /\ code' = add_patch(code, l, r)
                    /\ pc' = "alloc"
                    /\ result' = NoResult
    /\ retType' = "u64"
    /\ execs' = IF pc' = "alloc" THEN execs + 1 ELSE execs
    /\ prot_result' = "none"
    /\ UNCHANGED <<memory_map, region, storage, allocs, writes>>

\* between calls the caller assigns to its own cells (*a = 40; *b = 33)
StorageUpdate(a, v) ==
    /\ pc = "idle"
    /\ storage[a] # v
    /\ storage' = [storage EXCEPT ![a] = v]
    /\ UNCHANGED <<code, memory_map, region, pc, retType, result, left_addr,
                   right_addr, path, op, prot_result, calls, emits, allocs,
                   execs, writes>>

NextCalc ==
    \/ \E l \in Addrs : \E r \in Addrs : AddCall(l, r)
    \/ \E a \in Addrs : \E v \in Values : StorageUpdate(a, v)
    \/ ExecStep

SpecCalc == Init /\ [][NextCalc]_vars

----------------------------------------------------------------------------
(* Properties. *)

IsByte(b) == b \in 0..255

\* the add routine with both address slots blanked
Skeleton ==
    << 72, 184,  0, 0, 0, 0, 0, 0, 0, 0,
       72, 187,  0, 0, 0, 0, 0, 0, 0, 0,
       72, 139, 8,  72, 139, 19,  72, 1, 209,  72, 137, 200,  195 >>

InSlot(i, off) == i > off /\ i <= off + 8

\* C1: an add::<u64> call that returns gives the sum modulo 2^64 of the two
\* cells its arguments point at, as they are during that call; the first call
\* takes the emit path and every later one the patch path; 10 + 22 gives 32
\* and, after the cells are set to 40 and 33, the next call gives 73.
C1_AddReturnsSum ==
    (op.name = "add" /\ pc = "drop") =>
        /\ result = Value(Add64(storage[left_addr], storage[right_addr]))
        /\ (path = "emit") <=> (calls = 1)
        /\ (storage[left_addr] = Small(10) /\ storage[right_addr] = Small(22))
              => result.value = Small(32)
        /\ (storage[left_addr] = Small(40) /\ storage[right_addr] = Small(33))
              => result.value = Small(73)
        /\ (storage[left_addr] = Max64 /\ storage[right_addr] = Small(33))
              => result.value = Small(32)

C1_Witness ==
    /\ op.name = "add"
    /\ pc = "drop"
    /\ calls = 2
    /\ path = "patch"
    /\ left_addr = AddrB
    /\ right_addr = AddrA
    /\ storage[AddrB] = Small(40)
    /\ storage[AddrA] = Small(33)
    /\ result = Value(Small(73))

\* C2: only the first add call materializes a region (allocate, copy,
\* re-protect); later calls patch the live region and call it again, so one
\* calculator allocates one region however many calls it serves.
C2_SingleMaterialization ==
    calls >= 1 => allocs <= 1

\* C3: write_u64_at(v, k) with k + 8 <= length keeps the length, makes bytes
\* [k, k+8) the little-endian encoding of v and leaves every other byte as it
\* was, whether or not the buffer has been executed before.
C3_PatchLocal ==
    [][ (op'.name = "write_u64_at" /\ writes' = writes + 1
            /\ op'.position + 8 <= Len(code))
        => /\ Len(code') = Len(code)
           /\ Imm(code', op'.position, 8) = op'.num
           /\ \A i \in 1..Len(code) :
                 IF InSlot(i, op'.position)
                 THEN IsByte(code'[i])
                 ELSE code'[i] = code[i]
           /\ result' = Unit ]_vars

C3_Witness ==
    /\ op.name = "write_u64_at"
    /\ op.position > 0
    /\ op.position + 8 < Len(code)
    /\ op.num = Pattern
    /\ Imm(code, op.position, 8) = Pattern
    /\ execs > 0
    /\ result = Unit

\* C4: write_u64_at(v, k) with k + 8 > length fails with a bounds error before
\* any byte is written: the buffer is left as it was.
C4_OutOfBoundsRejected ==
    [][ (op'.name = "write_u64_at" /\ writes' = writes + 1
            /\ op'.position + 8 > Len(code))
        => (code' = code /\ result' = Panic) ]_vars

\* C5: write_u64(v) appends exactly 8 bytes after the n bytes already there,
\* leaves those n bytes alone, byte n+i is (v >> 8i) & 0xFF, and decoding the
\* 8 bytes as a little-endian integer gives v back.
C5_AppendRoundTrip ==
    [][ (op'.name = "write_u64" /\ writes' = writes + 1)
        => /\ Len(code') = Len(code) + 8
           /\ SubSeq(code', 1, Len(code)) = code
           /\ \A i \in 0..7 :
                 /\ IsByte(code'[Len(code) + i + 1])
                 /\ code'[Len(code) + i + 1] = ByteOf(op'.num, i)
           /\ Imm(code', Len(code), 8) = op'.num ]_vars

C5_Witness ==
    /\ op.name = "write_u64"
    /\ op.num = Pattern
    /\ op.position > 0
    /\ Len(code) = op.position + 8
    /\ SubSeq(code, op.position + 1, op.position + 8) = <<1, 2, 3, 4, 5, 6, 7, 8>>

\* C6: the region execute runs is a byte-for-byte copy, of the same length and
\* order, of the buffer as it is at that execute call, entered at its first
\* byte; so a returning execute gives the value those bytes compute, and the
\* bytes of mov eax,5; mov edx,11; add eax,edx; ret give 16.
C6_RunsCopyOfBuffer ==
    /\ pc \in {"protect", "invoke", "drop"} =>
          /\ region.mapped
          /\ Len(region.bytes) = Len(code)
          /\ region.bytes = code
    /\ (pc = "drop" /\ Call(code, storage).ok) =>
          result = Value(AsT(retType, Call(code, storage).rax))
    /\ (pc = "drop" /\ code = Golden) => result = Value(Small(16))
    /\ (pc = "drop" /\ code = <<184, 5, 0, 0, 0, 195>>) => result = Value(Small(5))

C6_Witness ==
    /\ pc = "drop"
    /\ execs = 2
    /\ code = Golden
    /\ retType = "u32"
    /\ result = Value(Small(16))

\* C7: control is never transferred to a region unless that region has been
\* mapped, holds a copy of the buffer's code and has been made executable.
C7_InvokeOnlyMaterialized ==
    pc = "invoke" =>
        /\ region.mapped
        /\ region.bytes = code
        /\ region.prot = "ReadExecute"

\* C8: a mapped region is Writable or Executable; the copy happens while it is
\* Writable, the call happens while it is Executable, and an Executable
\* region is never made Writable again while it is mapped.
C8_ProtectionDiscipline ==
    /\ [](/\ region.mapped => region.prot \in {"ReadWrite", "ReadExecute"}
          /\ pc = "copy" => region.prot = "ReadWrite"
          /\ pc \in {"invoke", "drop"} => region.prot = "ReadExecute")
    /\ [][ (region.mapped /\ region'.mapped /\ region.prot = "ReadExecute")
              => region'.prot = "ReadExecute" ]_vars

\* C9: when the platform refuses the allocation or the change of protection,
\* execute ends there: the caller gets the error, nothing is retried and the
\* region is not called.
C9_PlatformFailureSurfaced ==
    /\ [](prot_result = "Err" => (pc = "idle" /\ result = Panic))
    /\ [][ (pc = "alloc" /\ ~region'.mapped)
              => (pc' = "idle" /\ result' = Panic /\ allocs' = allocs) ]_vars

\* C10: after one or more add calls the template has been emitted exactly
\* once, the buffer is 33 bytes long, offsets 2 and 12 are the starts of the
\* immediates after 48 b8 and 48 bb, those two slots hold the addresses of the
\* latest call, and every other byte is the fixed template.
C10_TemplateOnce ==
    calls >= 1 =>
        /\ emits = 1
        /\ Len(code) = 33
        /\ Len(code) = Len(Skeleton)
        /\ SubSeq(code, OffLeft - 1, OffLeft) = <<72, 184>>
        /\ SubSeq(code, OffRight - 1, OffRight) = <<72, 187>>
        /\ Imm(code, OffLeft, 8) = left_addr
        /\ Imm(code, OffRight, 8) = right_addr
        /\ \A i \in 1..Len(code) :
              IF InSlot(i, OffLeft) \/ InSlot(i, OffRight)
              THEN IsByte(code[i])
              ELSE code[i] = Skeleton[i]

C10_Witness ==
    /\ calls = 3
    /\ pc = "idle"
    /\ path = "patch"
    /\ left_addr = AddrB
    /\ right_addr = AddrA
    /\ Imm(code, OffLeft, 8) = AddrB
    /\ Imm(code, OffRight, 8) = AddrA
    /\ result.kind = "value"

====
